---- MODULE Spec2Model ----
(***************************************************************************)
(* CPU scheduling simulators of schedulers.go: FCFSSchedule, SJFSchedule   *)
(* (with findShortestJob and removeProcess) and SJFPrioritySchedule.       *)
(*                                                                         *)
(* One behaviour is one call of one driver on one batch.  Init is the      *)
(* state after the driver's var block, one action is one iteration of the  *)
(* driver's loop, and the Finish actions are the statements after the      *)
(* loop that compute the averages and the throughput.                      *)
(*                                                                         *)
(* ProcessID is used as an integer index at schedulers.go:124              *)
(* (schedule[process.ProcessID-1]) and is modelled as an integer.          *)
(***************************************************************************)
EXTENDS Integers, Sequences, FiniteSets, TLC

\* ------------------------------------------------------------------ bounds
MaxProcs == 2
MaxArrival == 1
MaxBurst == 2
MaxID == 2
MaxPriority == 1

VARIABLES
    alg,             \* which driver is being called
    pc,              \* "loop", "done" or "panic"
    given,           \* history: the caller's batch as it was when the driver was called
    processes,       \* the caller's batch ([]Process or []Process1)
    serviceTime,     \* FCFS/SJF: serviceTime
    waitingTime,     \* FCFS: waitingTime (declared outside the loop); SJF: last waitingTime
    totalWait,       \* FCFS/SJF: totalWait
    totalTurnaround, \* all drivers: totalTurnaround
    lastCompletion,  \* FCFS/SJF: lastCompletion
    schedule,        \* FCFS/SJF: the result table, <<>> is a nil row
    gantt,           \* FCFS/SJF: the timeline
    i,               \* FCFS: loop index (1-based)
    remaining,       \* SJF: the working copy
    process,         \* SJF: process := *next of the last dispatch
    completed,       \* SJFPriority: completed
    currentTime,     \* SJFPriority: currentTime
    waiting,         \* SJFPriority: waiting
    active,          \* SJFPriority: *active, NilProcess1 when active == nil
    totalWaiting,    \* SJFPriority: totalWaiting
    aveWait,         \* reported average waiting time
    aveTurnaround,   \* reported average turnaround time
    aveThroughput,   \* reported throughput
    ticksActive,     \* history: per batch index, ticks in which a copy of it was active
    timesCompleted,  \* history: per batch index, times a copy of it was counted completed
    finished         \* history: the copies marked completed, with the tick they finished at

vars == <<alg, pc, given, processes, serviceTime, waitingTime, totalWait,
          totalTurnaround, lastCompletion, schedule, gantt, i, remaining,
          process, completed, currentTime, waiting, active, totalWaiting,
          aveWait, aveTurnaround, aveThroughput, ticksActive, timesCompleted,
          finished>>

\* ------------------------------------------------------------------- types
\* Process; Priority is only copied into the table by FCFS and SJF.
Process ==
    [ProcessID : 1..MaxID, ArrivalTime : 0..MaxArrival,
     BurstDuration : 1..MaxBurst, Priority : {1}]

\* Process1 as the caller builds it: Completed, Turnaround, Waiting are zero values.
\* Name is never read by the driver; the caller names the k-th process k.
Process1At(k) ==
    [Name : {k}, Burst : 1..MaxBurst, Arrival : 0..MaxArrival,
     Priority : {0, MaxPriority}, Completed : {FALSE}, Turnaround : {0},
     Waiting : {0}]

NilProcess1 ==
    [Name |-> 0, Burst |-> 0, Arrival |-> 0, Priority |-> 0,
     Completed |-> FALSE, Turnaround |-> 0, Waiting |-> 0]

NilProcess ==
    [ProcessID |-> 0, ArrivalTime |-> 0, BurstDuration |-> 0, Priority |-> 0]

TimeSlice(pid, start, stop) ==
    [PID |-> pid, Start |-> start, Stop |-> stop]

Batches ==
    UNION {[1..n -> Process] : n \in 0..MaxProcs}

Batches1 ==
    UNION {{b \in [1..n -> UNION {Process1At(k) : k \in 1..n}] :
              \A k \in 1..n : b[k].Name = k} : n \in 0..MaxProcs}

\* ----------------------------------------------------------------- helpers
DigitChars == <<"0", "1", "2", "3", "4", "5", "6", "7", "8", "9">>

RECURSIVE Digits(_)
Digits(n) ==
    IF n < 10 THEN <<DigitChars[n + 1]>>
    ELSE Append(Digits(n \div 10), DigitChars[(n % 10) + 1])

\* fmt.Sprint of an integer: its decimal digits, with a leading "-" when negative.
Sprint(n) ==
    IF n < 0 THEN <<"-">> \o Digits(-n) ELSE Digits(n)

\* float64 division: x/0 is NaN when x = 0 and an infinity otherwise.
FloatDiv(n, d) ==
    [num |-> n, den |-> d,
     kind |-> IF d # 0 THEN "finite" ELSE IF n = 0 THEN "NaN" ELSE "Inf"]

NoValue == [num |-> 0, den |-> 1, kind |-> "unset"]

Row(p, w, turnaround, completion) ==
    <<Sprint(p.ProcessID), Sprint(p.Priority), Sprint(p.BurstDuration),
      Sprint(p.ArrivalTime), Sprint(w), Sprint(turnaround), Sprint(completion)>>

\* -------------------------------------------------------------------- FCFS
\* lines 40-42: waitingTime is only reassigned when ArrivalTime > 0.
FCFSWaitingTime(p, service, prevWaiting) ==
    IF p.ArrivalTime > 0 THEN service - p.ArrivalTime ELSE prevWaiting

FCFSTurnaround(p, w) == p.BurstDuration + w

\* Faulty variant of FCFSCompletion: the arrival time is left out of line 50.
FCFSCompletionNoArrival(p, w) == p.BurstDuration + w

FCFSCompletion(p, w) == p.BurstDuration + p.ArrivalTime + w

\* Faulty variant of AppendSlice: the new slice is put at the front of the timeline.
PrependSlice(g, slice) == <<slice>> \o g

\* lines 64-68 and 134-138: gantt = append(gantt, TimeSlice{...}).
AppendSlice(g, slice) == Append(g, slice)

FCFSStep ==
    /\ alg = "FCFS" /\ pc = "loop" /\ i <= Len(processes)
    /\ LET p == processes[i]
           w == FCFSWaitingTime(p, serviceTime, waitingTime)
           start == w + p.ArrivalTime
           turnaround == FCFSTurnaround(p, w)
           completion == FCFSCompletion(p, w)
       IN /\ waitingTime' = w
          /\ totalWait' = totalWait + w
          /\ totalTurnaround' = totalTurnaround + turnaround
          /\ lastCompletion' = completion
          /\ schedule' = [schedule EXCEPT ![i] = Row(p, w, turnaround, completion)]
          /\ serviceTime' = serviceTime + p.BurstDuration
          /\ gantt' = AppendSlice(gantt, TimeSlice(p.ProcessID, start,
                                                   serviceTime + p.BurstDuration))
    /\ i' = i + 1
    /\ UNCHANGED <<alg, given, pc, processes, remaining, process, completed,
                   currentTime, waiting, active, totalWaiting, aveWait,
                   aveTurnaround, aveThroughput, ticksActive, timesCompleted,
                   finished>>

\* lines 71-74 and 143-146: count, aveWait, aveTurnaround, aveThroughput.
Averages ==
    /\ aveWait' = FloatDiv(totalWait, Len(processes))
    /\ aveTurnaround' = FloatDiv(totalTurnaround, Len(processes))
    /\ aveThroughput' = FloatDiv(Len(processes), lastCompletion)

FCFSFinish ==
    /\ alg = "FCFS" /\ pc = "loop" /\ i > Len(processes)
    /\ Averages
    /\ pc' = "done"
    /\ UNCHANGED <<alg, given, processes, serviceTime, waitingTime, totalWait,
                   totalTurnaround, lastCompletion, schedule, gantt, i,
                   remaining, process, completed, currentTime, waiting,
                   active, totalWaiting, ticksActive, timesCompleted, finished>>

\* --------------------------------------------------------------------- SJF
\* lines 153-164; returns the index in remaining of *shortest, 0 for nil.
RECURSIVE ShortestFrom(_, _, _, _)
ShortestFrom(pool, service, k, shortest) ==
    IF k > Len(pool) THEN shortest
    ELSE IF pool[k].ArrivalTime > service THEN shortest
    ELSE IF shortest = 0 \/ pool[k].BurstDuration < pool[shortest].BurstDuration
         THEN ShortestFrom(pool, service, k + 1, k)
         ELSE ShortestFrom(pool, service, k + 1, shortest)

\* Faulty variant of findShortestJob: line 159 compares with <=, so the last of the
\* equally short jobs wins.
RECURSIVE ShortestFromLastWins(_, _, _, _)
ShortestFromLastWins(pool, service, k, shortest) ==
    IF k > Len(pool) THEN shortest
    ELSE IF pool[k].ArrivalTime > service THEN shortest
    ELSE IF shortest = 0 \/ pool[k].BurstDuration <= pool[shortest].BurstDuration
         THEN ShortestFromLastWins(pool, service, k + 1, k)
         ELSE ShortestFromLastWins(pool, service, k + 1, shortest)

findShortestJobLastWins(pool, service) == ShortestFromLastWins(pool, service, 1, 0)

findShortestJob(pool, service) == ShortestFrom(pool, service, 1, 0)

\* lines 166-174
removeProcess(pool, p) ==
    SelectSeq(pool, LAMBDA q : q.ProcessID # p.ProcessID)

\* lines 90-97: the working copy, sorted by arrival time (stable).
\* The stable sort is written as its result: for each arrival time in
\* ascending order, the processes with that arrival time in their original
\* relative order.
SortByArrivalTime(batch) ==
    IF batch = <<>> THEN <<>>
    ELSE LET keys == {batch[k].ArrivalTime : k \in 1..Len(batch)}
             lo == CHOOSE x \in keys : \A y \in keys : x <= y
             hi == CHOOSE x \in keys : \A y \in keys : x >= y
             from[t \in lo..(hi + 1)] ==
                 IF t > hi THEN <<>>
                 ELSE SelectSeq(batch, LAMBDA e : e.ArrivalTime = t) \o from[t + 1]
         IN from[lo]

\* Faulty variant of CallerSlice: remaining aliases processes (no copy), so
\* the sort of line 97 reorders the caller's slice.
CallerSliceSortedInPlace(batch) == SortByArrivalTime(batch)

\* lines 90-91: remaining is a fresh slice filled by copy, so the sort and
\* the removals leave the caller's slice with its elements in their order.
CallerSlice(batch) == batch

\* lines 110-113
SJFWaitingTime(p, service) ==
    IF service - p.ArrivalTime < 0 THEN 0 ELSE service - p.ArrivalTime

SJFTurnaround(p, w) == p.BurstDuration + w

SJFCompletion(p, service) == p.BurstDuration + service

\* line 124: the row index, 0-based in the source, 1-based here.
ScheduleIndex(p) == (p.ProcessID - 1) + 1

\* lines 101-105: no available jobs.
SJFIdle ==
    /\ alg = "SJF" /\ pc = "loop" /\ Len(remaining) > 0
    /\ findShortestJob(remaining, serviceTime) = 0
    /\ serviceTime' = serviceTime + 1
    /\ UNCHANGED <<alg, given, pc, processes, waitingTime, totalWait, totalTurnaround,
                   lastCompletion, schedule, gantt, i, remaining, process,
                   completed, currentTime, waiting, active, totalWaiting,
                   aveWait, aveTurnaround, aveThroughput, ticksActive,
                   timesCompleted, finished>>

\* lines 107-122, common to a dispatch that completes and one that panics at line 124.
SJFAccount(p) ==
    LET w == SJFWaitingTime(p, serviceTime)
    IN /\ process' = p
       /\ remaining' = removeProcess(remaining, p)
       /\ waitingTime' = w
       /\ totalWait' = totalWait + w
       /\ totalTurnaround' = totalTurnaround + SJFTurnaround(p, w)
       /\ lastCompletion' = SJFCompletion(p, serviceTime)

SJFDispatch ==
    /\ alg = "SJF" /\ pc = "loop" /\ Len(remaining) > 0
    /\ findShortestJob(remaining, serviceTime) # 0
    /\ LET p == remaining[findShortestJob(remaining, serviceTime)]
           w == SJFWaitingTime(p, serviceTime)
           completion == SJFCompletion(p, serviceTime)
       IN /\ ScheduleIndex(p) \in 1..Len(schedule)
          /\ SJFAccount(p)
          /\ schedule' = [schedule EXCEPT ![ScheduleIndex(p)] =
                              Row(p, w, SJFTurnaround(p, w), completion)]
          /\ gantt' = AppendSlice(gantt, TimeSlice(p.ProcessID, serviceTime, completion))
          /\ serviceTime' = serviceTime + p.BurstDuration
    /\ UNCHANGED <<alg, given, pc, processes, i, completed, currentTime, waiting,
                   active, totalWaiting, aveWait, aveTurnaround, aveThroughput,
                   ticksActive, timesCompleted, finished>>

\* line 124 with ProcessID-1 outside the table: index out of range, the run panics.
SJFPanic ==
    /\ alg = "SJF" /\ pc = "loop" /\ Len(remaining) > 0
    /\ findShortestJob(remaining, serviceTime) # 0
    /\ LET p == remaining[findShortestJob(remaining, serviceTime)]
       IN /\ ScheduleIndex(p) \notin 1..Len(schedule)
          /\ SJFAccount(p)
    /\ pc' = "panic"
    /\ UNCHANGED <<alg, given, processes, serviceTime, schedule, gantt, i, completed,
                   currentTime, waiting, active, totalWaiting, aveWait,
                   aveTurnaround, aveThroughput, ticksActive, timesCompleted,
                   finished>>

SJFFinish ==
    /\ alg = "SJF" /\ pc = "loop" /\ Len(remaining) = 0
    /\ Averages
    /\ pc' = "done"
    /\ UNCHANGED <<alg, given, processes, serviceTime, waitingTime, totalWait,
                   totalTurnaround, lastCompletion, schedule, gantt, i,
                   remaining, process, completed, currentTime, waiting,
                   active, totalWaiting, ticksActive, timesCompleted, finished>>

\* ------------------------------------------------------------- SJFPriority
\* lines 195-199: the copies appended to waiting at this tick.
Arrived(batch, now) ==
    SelectSeq(batch, LAMBDA p : ~p.Completed /\ p.Arrival <= now)

\* lines 200-202, as the stable order: for each Burst in ascending order,
\* the elements with that Burst in their original relative order.
SortByBurst(w) ==
    IF w = <<>> THEN <<>>
    ELSE LET keys == {w[k].Burst : k \in 1..Len(w)}
             lo == CHOOSE x \in keys : \A y \in keys : x <= y
             hi == CHOOSE x \in keys : \A y \in keys : x >= y
             from[b \in lo..(hi + 1)] ==
                 IF b > hi THEN <<>>
                 ELSE SelectSeq(w, LAMBDA e : e.Burst = b) \o from[b + 1]
         IN from[lo]

\* lines 200-205: the index, in the stably sorted waiting, of the element
\* that sort.Slice leaves at waiting[0].  sort.Slice is not stable; every Go
\* release sorts up to 6 elements by plain insertion, which keeps equal
\* elements in order, and above that waiting[0] may be any element of least
\* Burst.  The rest of waiting is kept in stable order: it is sorted again
\* before it is next read, and waiting never gets shorter from one tick's
\* sort to the next.
FrontChoices(sorted) ==
    IF Len(sorted) <= 6 THEN {1}
    ELSE {j \in 1..Len(sorted) : sorted[j].Burst = sorted[1].Burst}

RemoveAt(s, j) ==
    SubSeq(s, 1, j - 1) \o SubSeq(s, j + 1, Len(s))

\* lines 208-215 applied to *active; the processes slice is not touched,
\* active points into waiting's backing array.
RunActive(a, now) ==
    LET b == [a EXCEPT !.Burst = a.Burst - 1]
    IN IF b.Burst = 0
       THEN LET t == now + 1 - b.Arrival
            IN [b EXCEPT !.Completed = TRUE, !.Turnaround = t,
                         !.Waiting = t - b.Priority]
       ELSE b

\* Faulty variant of SelectsNext: the active == nil test of line 203 is left out.
SelectsNextAlways(a, sorted) == Len(sorted) > 0

\* line 203: a process is taken from waiting only when nothing is active.
SelectsNext(a, sorted) == a = NilProcess1 /\ Len(sorted) > 0

SPTick ==
    /\ alg = "SJFPriority" /\ pc = "loop" /\ completed < Len(processes)
    /\ LET sorted == SortByBurst(waiting \o Arrived(processes, currentTime))
           select == SelectsNext(active, sorted)
       IN \E j \in (IF select THEN FrontChoices(sorted) ELSE {0}) :
            LET a == IF select THEN sorted[j] ELSE active
                rest == IF select THEN RemoveAt(sorted, j) ELSE sorted
                ran == IF a = NilProcess1 THEN a ELSE RunActive(a, currentTime)
                done == a # NilProcess1 /\ ran.Burst = 0
            IN /\ waiting' = rest
               /\ active' = IF done THEN NilProcess1 ELSE ran
               /\ completed' = IF done THEN completed + 1 ELSE completed
               /\ ticksActive' = IF a = NilProcess1 THEN ticksActive
                                 ELSE [ticksActive EXCEPT ![a.Name] = @ + 1]
               /\ timesCompleted' = IF done
                                    THEN [timesCompleted EXCEPT ![a.Name] = @ + 1]
                                    ELSE timesCompleted
               /\ finished' = IF done
                              THEN Append(finished, [p |-> ran, tick |-> currentTime])
                              ELSE finished
    /\ currentTime' = currentTime + 1
    /\ UNCHANGED <<alg, given, pc, processes, serviceTime, waitingTime, totalWait,
                   totalTurnaround, lastCompletion, schedule, gantt, i,
                   remaining, process, totalWaiting, aveWait, aveTurnaround,
                   aveThroughput>>

\* lines 220-224: the totals over the processes slice.
SumTurnaround(batch) ==
    LET sum[k \in 0..Len(batch)] ==
            IF k = 0 THEN 0 ELSE sum[k - 1] + batch[k].Turnaround
    IN sum[Len(batch)]

SumWaiting(batch) ==
    LET sum[k \in 0..Len(batch)] ==
            IF k = 0 THEN 0 ELSE sum[k - 1] + batch[k].Waiting
    IN sum[Len(batch)]

\* lines 220-228
SPFinish ==
    /\ alg = "SJFPriority" /\ pc = "loop" /\ completed >= Len(processes)
    /\ totalTurnaround' = SumTurnaround(processes)
    /\ totalWaiting' = SumWaiting(processes)
    /\ aveTurnaround' = FloatDiv(SumTurnaround(processes), Len(processes))
    /\ aveWait' = FloatDiv(SumWaiting(processes), Len(processes))
    /\ aveThroughput' = FloatDiv(Len(processes), currentTime)
    /\ pc' = "done"
    /\ UNCHANGED <<alg, given, processes, serviceTime, waitingTime, totalWait,
                   lastCompletion, schedule, gantt, i, remaining, process,
                   completed, currentTime, waiting, active, ticksActive,
                   timesCompleted, finished>>

\* -------------------------------------------------------------- RoundRobin
\* line 231: RRSchedule has an empty body and no quantum parameter; the call
\* returns at once and nothing is computed or emitted.
RRSchedule ==
    /\ alg = "RR" /\ pc = "loop"
    /\ pc' = "done"
    /\ UNCHANGED <<alg, given, processes, serviceTime, waitingTime, totalWait,
                   totalTurnaround, lastCompletion, schedule, gantt, i,
                   remaining, process, completed, currentTime, waiting,
                   active, totalWaiting, aveWait, aveTurnaround,
                   aveThroughput, ticksActive, timesCompleted, finished>>

\* ------------------------------------------------------------ specification
InitOn(drivers, batches, batches1) ==
    /\ alg \in drivers
    /\ pc = "loop"
    /\ given \in (IF alg = "SJFPriority" THEN batches1 ELSE batches)
    /\ processes = (IF alg = "SJF" THEN CallerSlice(given) ELSE given)
    /\ serviceTime = 0
    /\ waitingTime = 0
    /\ totalWait = 0
    /\ totalTurnaround = 0
    /\ lastCompletion = 0
    /\ schedule = [k \in 1..Len(processes) |-> <<>>]
    /\ gantt = <<>>
    /\ i = 1
    /\ remaining = (IF alg = "SJF" THEN SortByArrivalTime(processes) ELSE <<>>)
    /\ process = NilProcess
    /\ completed = 0
    /\ currentTime = 0
    /\ waiting = <<>>
    /\ active = NilProcess1
    /\ totalWaiting = 0
    /\ aveWait = NoValue
    /\ aveTurnaround = NoValue
    /\ aveThroughput = NoValue
    /\ ticksActive = [k \in 1..Len(processes) |-> 0]
    /\ timesCompleted = [k \in 1..Len(processes) |-> 0]
    /\ finished = <<>>

\* The drivers called on batches that keep the data model's invariants.
InitWith(drivers) == InitOn(drivers, Batches, Batches1)

Init == InitWith({"FCFS", "SJF", "SJFPriority"})

Next ==
    \/ FCFSStep
    \/ FCFSFinish
    \/ SJFIdle
    \/ SJFDispatch
    \/ SJFPanic
    \/ SJFFinish
    \/ SPTick
    \/ SPFinish

\* Every driver.
Spec == Init /\ [][Next]_vars

\* The two drivers over []Process: FCFSSchedule and SJFSchedule.
NonPreemptiveInit == InitWith({"FCFS", "SJF"})

NonPreemptiveNext ==
    \/ FCFSStep
    \/ FCFSFinish
    \/ SJFIdle
    \/ SJFDispatch
    \/ SJFPanic
    \/ SJFFinish

NonPreemptiveSpec == NonPreemptiveInit /\ [][NonPreemptiveNext]_vars

\* The driver over []Process1: SJFPrioritySchedule.
PriorityInit == InitWith({"SJFPriority"})

PriorityNext ==
    \/ SPTick
    \/ SPFinish

PrioritySpec == PriorityInit /\ [][PriorityNext]_vars

\* The stub driver: RRSchedule.
RoundRobinInit == InitWith({"RR"})

RoundRobinNext == RRSchedule

RoundRobinSpec == RoundRobinInit /\ [][RoundRobinNext]_vars

\* SJFSchedule and SJFPrioritySchedule called on batches nobody validated:
\* a burst may be 0 or less.  Nothing in the drivers bounds the ticks of
\* SJFPrioritySchedule, so the model stops ticking at MaxTicks, past the
\* TickLimit every run on valid data keeps.
AnyBurstProcess ==
    [ProcessID : 1..MaxID, ArrivalTime : 0..MaxArrival,
     BurstDuration : (-1)..MaxBurst, Priority : {1}]

AnyBurstProcess1At(k) ==
    [Name : {k}, Burst : (-1)..MaxBurst, Arrival : 0..MaxArrival,
     Priority : {0, MaxPriority}, Completed : {FALSE}, Turnaround : {0},
     Waiting : {0}]

AnyBurstBatches ==
    UNION {[1..n -> AnyBurstProcess] : n \in 0..MaxProcs}

AnyBurstBatches1 ==
    UNION {{b \in [1..n -> UNION {AnyBurstProcess1At(k) : k \in 1..n}] :
              \A k \in 1..n : b[k].Name = k} : n \in 0..MaxProcs}

\* The most ticks a run on valid data takes: the wait for the first arrival
\* and a full burst for every completion counted.
TickLimit == MaxArrival + MaxProcs * MaxBurst

MaxTicks == TickLimit + 2

InvalidDataInit == InitOn({"SJF", "SJFPriority"}, AnyBurstBatches, AnyBurstBatches1)

InvalidDataNext ==
    \/ SJFIdle
    \/ SJFDispatch
    \/ SJFPanic
    \/ SJFFinish
    \/ (currentTime < MaxTicks /\ SPTick)
    \/ SPFinish

InvalidDataSpec == InvalidDataInit /\ [][InvalidDataNext]_vars

\* ================================================================== claims
\* strconv.Atoi of what Sprint wrote: reads a table cell back as an integer.
Atoi(str) ==
    LET neg == str # <<>> /\ Head(str) = "-"
        ds == IF neg THEN Tail(str) ELSE str
        digit(c) == CHOOSE d \in 0..9 : DigitChars[d + 1] = c
        val[k \in 0..Len(ds)] == IF k = 0 THEN 0 ELSE 10 * val[k - 1] + digit(ds[k])
    IN IF neg THEN 0 - val[Len(ds)] ELSE val[Len(ds)]

\* The columns of a table row.
ColID == 1
ColPriority == 2
ColBurst == 3
ColArrival == 4
ColWaiting == 5
ColTurnaround == 6
ColCompletion == 7

\* Sum of the bursts of the processes listed before the k-th of a batch.
BurstsBefore(batch, k) ==
    LET sum[j \in 0..(k - 1)] ==
            IF j = 0 THEN 0 ELSE sum[j - 1] + batch[j].BurstDuration
    IN sum[k - 1]

\* The data model's batch invariant: ids are unique within a batch.
UniqueIDs(batch) ==
    \A j, k \in 1..Len(batch) : j # k => batch[j].ProcessID # batch[k].ProcessID

NonPreemptive == alg \in {"FCFS", "SJF"}

\* ---------------------------------------------------------------------- C1
\* C1: when FCFSSchedule has finished a batch whose processes all arrive at
\* 0, row k of the table reports a waiting time equal to the sum of the
\* bursts listed before k, a turnaround of waiting + burst, and a completion
\* equal to the turnaround.
AllArriveAtZero(batch) ==
    \A k \in 1..Len(batch) : batch[k].ArrivalTime = 0

FCFSZeroArrivalRows ==
    (alg = "FCFS" /\ pc = "done" /\ AllArriveAtZero(processes)) =>
        \A k \in 1..Len(processes) :
            LET wait == BurstsBefore(processes, k)
            IN /\ schedule[k][ColWaiting] = Sprint(wait)
               /\ schedule[k][ColTurnaround] = Sprint(wait + processes[k].BurstDuration)
               /\ schedule[k][ColCompletion] = Sprint(wait + processes[k].BurstDuration)

\* ---------------------------------------------------------------------- C2
\* C2: in every row that FCFSSchedule or SJFSchedule has written, the
\* turnaround equals the completion time minus the arrival time.
TurnaroundIsCompletionMinusArrival ==
    NonPreemptive =>
        \A k \in 1..Len(schedule) :
            schedule[k] # <<>> =>
                Atoi(schedule[k][ColTurnaround]) =
                    Atoi(schedule[k][ColCompletion]) - Atoi(schedule[k][ColArrival])

\* A finished SJF run in which a process that arrived after 0 also had to wait.
TurnaroundWitness ==
    /\ alg = "SJF" /\ pc = "done"
    /\ \E k \in 1..Len(schedule) :
          /\ schedule[k] # <<>>
          /\ Atoi(schedule[k][ColArrival]) > 0
          /\ Atoi(schedule[k][ColWaiting]) > 0

\* ---------------------------------------------------------------------- C3
\* C3: when FCFSSchedule or SJFSchedule has finished a non-empty batch with
\* unique ids, lastCompletion (the throughput denominator) is at least the
\* sum of all bursts of the batch.
LastCompletionCoversBursts ==
    (NonPreemptive /\ pc = "done" /\ Len(processes) > 0 /\ UniqueIDs(processes)) =>
        lastCompletion >= BurstsBefore(processes, Len(processes) + 1)

\* ---------------------------------------------------------------------- C4
\* C4: every step of SJFSchedule that takes a process out of the pool takes
\* one that has arrived (ArrivalTime <= serviceTime) and whose burst is the
\* least among the arrived processes of the pool, and of those with that
\* burst it takes the one earliest in the pool, whatever their ProcessIDs.
ArrivedInPool ==
    {k \in 1..Len(remaining) : remaining[k].ArrivalTime <= serviceTime}

ShortestArrived ==
    {k \in ArrivedInPool :
        \A j \in ArrivedInPool :
            remaining[k].BurstDuration <= remaining[j].BurstDuration}

DispatchIsShortestArrived ==
    (alg = "SJF" /\ Len(remaining') < Len(remaining)) =>
        /\ ShortestArrived # {}
        /\ process'.ArrivalTime <= serviceTime
        /\ \E k \in ShortestArrived :
              /\ \A j \in ShortestArrived : k <= j
              /\ process' = remaining[k]

SJFPicksShortestArrived == [][DispatchIsShortestArrived]_vars

\* Two processes arrive together with equal bursts; the one listed first has
\* the larger ProcessID and is the first dispatched.
ShortestTieWitness ==
    /\ alg = "SJF" /\ Len(processes) = 2 /\ Len(gantt) = 1
    /\ processes[1].ArrivalTime = processes[2].ArrivalTime
    /\ processes[1].BurstDuration = processes[2].BurstDuration
    /\ processes[1].ProcessID > processes[2].ProcessID
    /\ gantt[1].PID = processes[1].ProcessID
    /\ process = processes[1]

\* ---------------------------------------------------------------------- C5
\* C5: the timeline of FCFSSchedule has one slice per process handled so
\* far, slice k carrying the ProcessID of the k-th process of the input, and
\* one slice per input process when the run has finished, whatever the
\* arrival times.
FCFSDispatchIsInputOrder ==
    alg = "FCFS" =>
        /\ Len(gantt) = i - 1
        /\ \A k \in 1..Len(gantt) : gantt[k].PID = processes[k].ProcessID
        /\ pc = "done" => Len(gantt) = Len(processes)

\* A finished FCFS run over two processes listed against their arrival order.
FCFSOutOfOrderWitness ==
    /\ alg = "FCFS" /\ pc = "done" /\ Len(processes) = 2
    /\ processes[1].ArrivalTime > processes[2].ArrivalTime
    /\ processes[1].ProcessID # processes[2].ProcessID
    /\ Len(gantt) = 2

\* ---------------------------------------------------------------------- C6
\* C6: a call of any driver with a batch of zero processes is refused as
\* InvalidInput: it never finishes as a normal run and none of the reported
\* statistics is the result of a division by zero.
DividedByZero ==
    \E stat \in {aveWait, aveTurnaround, aveThroughput} : stat.kind \in {"NaN", "Inf"}

EmptyBatchIsInvalidInput ==
    Len(processes) = 0 => (pc \in {"loop", "InvalidInput"} /\ ~DividedByZero)

\* ---------------------------------------------------------------------- C7
\* C7: when SJFPrioritySchedule has left its main loop, every process of
\* the batch has been the active process for exactly Burst ticks and has
\* been counted as completed exactly once.
LoopExitMeansAllCompleted ==
    (alg = "SJFPriority" /\ completed >= Len(processes)) =>
        \A k \in 1..Len(processes) :
            /\ ticksActive[k] = processes[k].Burst
            /\ timesCompleted[k] = 1

\* ---------------------------------------------------------------------- C8
\* C8: in SJFPrioritySchedule a process whose remaining burst reaches 0 at
\* tick t is recorded with Turnaround (t+1) - Arrival and Waiting
\* Turnaround - Priority, and when the run has finished totalTurnaround and
\* totalWaiting are the sums of these recorded values.
RecordedProcesses == [k \in 1..Len(finished) |-> finished[k].p]

TotalsAreRecordedSums ==
    alg = "SJFPriority" =>
        /\ \A k \in 1..Len(finished) :
              /\ finished[k].p.Turnaround = (finished[k].tick + 1) - finished[k].p.Arrival
              /\ finished[k].p.Waiting = finished[k].p.Turnaround - finished[k].p.Priority
        /\ pc = "done" =>
              /\ totalTurnaround = SumTurnaround(RecordedProcesses)
              /\ totalWaiting = SumWaiting(RecordedProcesses)

\* ---------------------------------------------------------------------- C9
\* C9: when FCFSSchedule or SJFSchedule has finished a batch with unique
\* ids, the table has one row per input process and row k carries the id,
\* priority, burst and arrival of the k-th process of the input.
RowDescribes(row, p) ==
    /\ row # <<>>
    /\ row[ColID] = Sprint(p.ProcessID)
    /\ row[ColPriority] = Sprint(p.Priority)
    /\ row[ColBurst] = Sprint(p.BurstDuration)
    /\ row[ColArrival] = Sprint(p.ArrivalTime)

TableIsInInputOrder ==
    (NonPreemptive /\ UniqueIDs(processes)) =>
        /\ pc # "panic"
        /\ pc = "done" =>
              /\ Len(schedule) = Len(processes)
              /\ \A k \in 1..Len(processes) : RowDescribes(schedule[k], processes[k])

\* --------------------------------------------------------------------- C10
\* C10: when a driver has finished a non-empty batch with unique ids, the
\* throughput is the process count divided by the final elapsed time
\* (serviceTime for FCFS and SJF, currentTime for SJF-Priority), which is
\* strictly positive.
FinalElapsedTime ==
    IF alg = "SJFPriority" THEN currentTime ELSE serviceTime

ThroughputIsCountOverElapsed ==
    (pc = "done" /\ Len(processes) > 0 /\ (NonPreemptive => UniqueIDs(processes))) =>
        /\ aveThroughput.num = Len(processes)
        /\ aveThroughput.den = FinalElapsedTime
        /\ aveThroughput.den > 0

\* --------------------------------------------------------------------- C11
\* C11: when RRSchedule has finished, for every quantum Q no slice of its
\* timeline is longer than Q ticks and every process whose burst is at most
\* Q appears in exactly one slice.
SlicesOf(pid) == {k \in 1..Len(gantt) : gantt[k].PID = pid}

RoundRobinSlices ==
    (alg = "RR" /\ pc = "done" /\ UniqueIDs(processes)) =>
        \A Q \in 1..MaxBurst :
            /\ \A k \in 1..Len(gantt) : gantt[k].Stop - gantt[k].Start <= Q
            /\ \A k \in 1..Len(processes) :
                  processes[k].BurstDuration <= Q =>
                      Cardinality(SlicesOf(processes[k].ProcessID)) = 1

\* --------------------------------------------------------------------- C12
\* C12: in every row FCFSSchedule has written, the first listed process has
\* waiting time 0 and the k-th, k > 1, has max(0, serviceClock - ArrivalTime)
\* with serviceClock the sum of the bursts listed before it; so no waiting
\* time is negative or carried over from the process before.
Max0(n) == IF n < 0 THEN 0 ELSE n

FCFSWaitingIsClampedClock ==
    alg = "FCFS" =>
        \A k \in 1..Len(schedule) :
            schedule[k] # <<>> =>
                Atoi(schedule[k][ColWaiting]) =
                    (IF k = 1 THEN 0
                     ELSE Max0(BurstsBefore(processes, k) - processes[k].ArrivalTime))

\* --------------------------------------------------------------------- C13
\* C13: in every row FCFSSchedule or SJFSchedule has written for a batch
\* with unique ids, the completion time is at least ArrivalTime +
\* BurstDuration.
CompletionCoversArrivalAndBurst ==
    (NonPreemptive /\ UniqueIDs(processes)) =>
        \A k \in 1..Len(schedule) :
            schedule[k] # <<>> =>
                Atoi(schedule[k][ColCompletion]) >=
                    Atoi(schedule[k][ColArrival]) + Atoi(schedule[k][ColBurst])

\* --------------------------------------------------------------------- C14
\* C14: every step of SJFSchedule keeps the run on its way to an empty
\* pool: it never ends the run abnormally; while no process of the pool has
\* arrived it advances serviceTime by exactly 1 and dispatches nothing; a
\* dispatched slice does not start before its process's ArrivalTime; and
\* when the run has finished the pool is empty and every process with a
\* unique ProcessID has exactly one slice.
HasUniqueID(batch, k) ==
    \A j \in 1..Len(batch) : j # k => batch[j].ProcessID # batch[k].ProcessID

SJFStepKeepsContract ==
    alg = "SJF" =>
        /\ pc' # "panic"
        /\ (pc = "loop" /\ remaining # <<>> /\ ArrivedInPool = {}) =>
              /\ serviceTime' = serviceTime + 1
              /\ gantt' = gantt
              /\ remaining' = remaining
        /\ Len(gantt') > Len(gantt) =>
              gantt'[Len(gantt')].Start >= process'.ArrivalTime
        /\ pc' = "done" =>
              /\ remaining' = <<>>
              /\ \A k \in 1..Len(processes) :
                    HasUniqueID(processes, k) =>
                        Cardinality(SlicesOf(processes[k].ProcessID)') = 1

SJFRunsPoolToEmpty == [][SJFStepKeepsContract]_vars

\* --------------------------------------------------------------------- C15
\* C15: in every state of SJFPrioritySchedule the waiting set holds at most
\* one entry per process, so it is never longer than the batch, and it holds
\* no entry of the active process or of a process already completed.
WaitingNames == {waiting[k].Name : k \in 1..Len(waiting)}

WaitingHasNoDuplicates ==
    alg = "SJFPriority" =>
        /\ \A j, k \in 1..Len(waiting) : j # k => waiting[j].Name # waiting[k].Name
        /\ Len(waiting) <= Len(processes)
        /\ active # NilProcess1 => active.Name \notin WaitingNames
        /\ \A k \in 1..Len(processes) : timesCompleted[k] > 0 => k \notin WaitingNames

\* --------------------------------------------------------------------- C16
\* C16: in every tick of SJFPrioritySchedule at most one process is active;
\* a process that is active at the start of the tick is the one that runs
\* in it and stays active after it unless its remaining burst has reached
\* 0, whatever has arrived meanwhile; and a process becomes active only in a
\* tick that starts with the active slot empty.
TicksRunBy(k) == ticksActive'[k] - ticksActive[k]

TickKeepsActive ==
    (alg = "SJFPriority" /\ currentTime' = currentTime + 1) =>
        /\ \A j, k \in 1..Len(processes) :
              (TicksRunBy(j) > 0 /\ TicksRunBy(k) > 0) => (j = k /\ TicksRunBy(k) = 1)
        /\ active # NilProcess1 =>
              /\ TicksRunBy(active.Name) = 1
              /\ active' = (IF active.Burst = 1 THEN NilProcess1
                            ELSE [active EXCEPT !.Burst = active.Burst - 1])
        /\ (active' # NilProcess1 /\ active' # [active EXCEPT !.Burst = active.Burst - 1]) =>
              /\ active = NilProcess1
              /\ \E k \in 1..Len(processes) :
                    /\ processes[k].Arrival <= currentTime
                    /\ active' = [processes[k] EXCEPT !.Burst = processes[k].Burst - 1]

ActiveRunsToCompletion == [][TickKeepsActive]_vars

\* The first process (burst 2, arrival 0) was active in ticks 0 and 1 and
\* finished at tick 1, although the second process, with the strictly
\* smaller burst 1, arrived at tick 1.
ShorterArrivalWitness ==
    /\ alg = "SJFPriority" /\ Len(processes) = 2
    /\ processes[1].Arrival = 0 /\ processes[1].Burst = 2
    /\ processes[2].Arrival = 1 /\ processes[2].Burst < processes[1].Burst
    /\ currentTime = 2
    /\ ticksActive = <<2, 0>>
    /\ Len(finished) = 1 /\ finished[1].p.Name = 1 /\ finished[1].tick = 1
    /\ \E k \in 1..Len(waiting) : waiting[k].Name = 2

\* --------------------------------------------------------------------- C17
\* C17: in SJFPrioritySchedule the remaining burst of the k-th process is
\* its Burst less the ticks in which it was active: it is never negative,
\* it is the Burst held by the active copy while the process is active, and
\* it is 0 once the process has been marked completed.
RemainingBurstCountsDown ==
    alg = "SJFPriority" =>
        \A k \in 1..Len(processes) :
            /\ processes[k].Burst - ticksActive[k] >= 0
            /\ active.Name = k => active.Burst = processes[k].Burst - ticksActive[k]
            /\ timesCompleted[k] > 0 => processes[k].Burst - ticksActive[k] = 0
            /\ \A j \in 1..Len(finished) :
                  finished[j].p.Name = k => finished[j].p.Burst = 0

\* --------------------------------------------------------------------- C18
\* C18: on a batch with a burst of 0 or less, SJFSchedule and
\* SJFPrioritySchedule are out of their loop (finished, or ended with an
\* error) within TickLimit ticks of simulated time: no run is still looping
\* after that.
ElapsedTicks ==
    IF alg = "SJFPriority" THEN currentTime ELSE serviceTime

HasInvalidBurst ==
    \E k \in 1..Len(given) :
        IF alg = "SJFPriority" THEN given[k].Burst <= 0
        ELSE given[k].BurstDuration <= 0

InvalidDataStopsWithinTickLimit ==
    (alg \in {"SJF", "SJFPriority"} /\ HasInvalidBurst /\ pc = "loop") =>
        ElapsedTicks <= TickLimit

\* --------------------------------------------------------------------- C19
\* C19: in every state of SJFSchedule the caller's process list holds the
\* elements it held at the call, in the same order.
SJFLeavesInputUnchanged ==
    alg = "SJF" => processes = given

\* A finished SJF run on two processes listed against their arrival order:
\* the working copy was sorted (the process listed second was dispatched
\* first) and emptied.
SortedCopyWitness ==
    /\ alg = "SJF" /\ pc = "done" /\ Len(given) = 2
    /\ given[1].ArrivalTime > given[2].ArrivalTime
    /\ given[1].ProcessID # given[2].ProcessID
    /\ Len(gantt) = 2 /\ gantt[1].PID = given[2].ProcessID
    /\ remaining = <<>>

\* --------------------------------------------------------------------- C20
\* C20: in the timelines of FCFSSchedule and SJFSchedule for a batch with
\* unique ids, every slice has Start < Stop and starts no earlier than the
\* slice before it stops.
SlicesDoNotOverlap ==
    (NonPreemptive /\ UniqueIDs(processes)) =>
        \A k \in 1..Len(gantt) :
            /\ gantt[k].Start < gantt[k].Stop
            /\ k > 1 => gantt[k].Start >= gantt[k - 1].Stop

====
